---- MODULE Spec2Model ----
(***************************************************************************)
(* Model of spead2.recv.trollius.Stream: the bridge between a heap source  *)
(* with a non-blocking get_nowait() and a readable fd, and the coroutine   *)
(* get() that suspends on a queue of waiter futures.                       *)
(*                                                                         *)
(* Every get() call is named by its request number (1, 2, ... in the order *)
(* the calls are made); the waiter future a call creates carries the same  *)
(* number.  Heaps are named by the order in which get_nowait() takes them  *)
(* from the source (1, 2, ...).  Each Stopped exception raised by          *)
(* get_nowait() is a new exception object, named by its sequence number.   *)
(* The event loop is single threaded: get() runs without interruption up   *)
(* to its yield, _ready_callback runs to completion.                       *)
(***************************************************************************)
EXTENDS Naturals, Integers, Sequences, FiniteSets, TLC

MaxRequests == 4      \* get() calls made in a behaviour
MaxHeaps == 3         \* heaps the source produces in a behaviour

Requests == 1..MaxRequests

VARIABLES
  waiters,    \* self._waiters, oldest first; entries are request numbers
  isDeque,    \* TRUE while self._waiters is a collections.deque, FALSE once it is a list
  listening,  \* self._listening
  readers,    \* loop.add_reader(fd) calls since the last loop.remove_reader(fd)
  fut,        \* state of the waiter future of each request
  val,        \* heap set as the result of each waiter (0: none)
  err,        \* Stopped exception object set on each waiter (0: none)
  pc,         \* position of each get() coroutine
  fast,       \* heap returned by get() without a waiter (0: none)
  issued,     \* number of get() calls made so far
  produced,   \* heaps the source has completed so far
  taken,      \* heaps get_nowait() has handed out so far
  stopped,    \* the source has been stopped
  nStopped,   \* Stopped exceptions get_nowait() has raised so far
  last        \* log of the most recent step

vars == <<waiters, isDeque, listening, readers, fut, val, err, pc, fast,
          issued, produced, taken, stopped, nStopped, last>>

NoLog == [op |-> "init", r |-> 0, polls |-> 0, res |-> "none", raised |-> "none",
          adds |-> 0, removes |-> 0, q |-> <<>>, pre |-> <<>>]

\* The state a handler works on, with an empty log for the handler.
Cur == [waiters |-> waiters, isDeque |-> isDeque, listening |-> listening,
        readers |-> readers, fut |-> fut, val |-> val, err |-> err, pc |-> pc,
        fast |-> fast, taken |-> taken, nStopped |-> nStopped,
        polls |-> 0, res |-> "none", raised |-> "none", adds |-> 0,
        removes |-> 0, q |-> <<>>]

\* trollius.Future.done()
Done(f) == f \in {"result", "exception", "cancelled"}

\* StartListening without the "if not self._listening" test
StartListening_Unguarded(s) ==
  [s EXCEPT !.readers = @ + 1, !.adds = @ + 1, !.listening = TRUE]

StartListening(s) ==
  IF ~s.listening
  THEN [s EXCEPT !.readers = @ + 1, !.adds = @ + 1, !.listening = TRUE]
  ELSE s

StopListening(s) ==
  IF s.listening
  THEN [s EXCEPT !.readers = 0, !.removes = @ + 1, !.listening = FALSE]
  ELSE s

\* self._waiters.popleft(): a list has no popleft
PopLeft(s) ==
  IF s.isDeque
  THEN [s EXCEPT !.waiters = Tail(@)]
  ELSE [s EXCEPT !.raised = "AttributeError"]

\* the while loop of _clear_done_waiters
RECURSIVE PopDone(_)
PopDone(s) ==
  IF s.raised = "none" /\ s.waiters # <<>> /\ Done(s.fut[Head(s.waiters)])
  THEN PopDone(PopLeft(s))
  ELSE s

\* ClearDoneWaiters without the final _stop_listening
ClearDoneWaiters_KeepListening(s) == PopDone(s)

\* ClearDoneWaiters that does not test waiter.done()
ClearDoneWaiters_NoPurge(s) ==
  IF s.waiters = <<>> THEN StopListening(s) ELSE s

\* ClearDoneWaiters that removes every done waiter, wherever it is queued
ClearDoneWaiters_RemoveAll(s) ==
  LET t == [s EXCEPT !.waiters = SelectSeq(@, LAMBDA w : ~Done(s.fut[w]))]
  IN  IF t.waiters = <<>> THEN StopListening(t) ELSE t

ClearDoneWaiters(s) ==
  LET t == PopDone(s)
  IN  IF t.raised # "none" THEN t
      ELSE IF t.waiters = <<>> THEN StopListening(t)
      ELSE t

\* spead2.recv.Stream.get_nowait(): a heap if one is complete, Stopped if the
\* source is stopped and drained, Empty otherwise
GetNowait(s) ==
  IF s.taken < produced
  THEN [s EXCEPT !.taken = @ + 1, !.polls = @ + 1, !.res = "heap"]
  ELSE IF stopped
  THEN [s EXCEPT !.nStopped = @ + 1, !.polls = @ + 1, !.res = "Stopped"]
  ELSE [s EXCEPT !.polls = @ + 1, !.res = "Empty"]

\* trollius.Future.set_result: InvalidStateError unless the future is pending
SetResult(s, w, heap) ==
  IF s.fut[w] = "pending"
  THEN [s EXCEPT !.fut[w] = "result", !.val[w] = heap]
  ELSE [s EXCEPT !.raised = "InvalidStateError"]

\* trollius.Future.set_exception: InvalidStateError unless the future is pending
SetException(s, w, e) ==
  IF s.fut[w] = "pending"
  THEN [s EXCEPT !.fut[w] = "exception", !.err[w] = e]
  ELSE [s EXCEPT !.raised = "InvalidStateError"]

\* for waiter in self._waiters: waiter.set_exception(e)
RECURSIVE SetExceptionAll(_, _, _)
SetExceptionAll(s, i, e) ==
  IF i > Len(s.waiters) \/ s.raised # "none" THEN s
  ELSE SetExceptionAll(SetException(s, s.waiters[i], e), i + 1, e)

\* the except spead2.Stopped branch of _ready_callback
StoppedBranch(s) ==
  LET t == SetExceptionAll(s, 1, s.nStopped)
  IN  IF t.raised # "none" THEN t
      ELSE StopListening([t EXCEPT !.waiters = <<>>, !.isDeque = FALSE])

\* HeapBranch with pop() in place of popleft()
HeapBranch_PopRight(s) ==
  LET w == s.waiters[Len(s.waiters)]
      t == [s EXCEPT !.waiters = SubSeq(@, 1, Len(@) - 1)]
      u == SetResult(t, w, s.taken)
  IN  IF u.raised # "none" THEN u
      ELSE IF u.waiters = <<>> THEN StopListening(u)
      ELSE u

\* HeapBranch without the final _stop_listening
HeapBranch_KeepListening(s) ==
  LET w == Head(s.waiters)
      t == PopLeft(s)
  IN  IF t.raised # "none" THEN t ELSE SetResult(t, w, s.taken)

\* HeapBranch that hands the heap to every pending waiter, as the Stopped
\* branch does with the exception
HeapBranch_ToAll(s) ==
  StopListening(
    [s EXCEPT !.fut = [r \in Requests |->
                         IF (\E i \in 1..Len(s.waiters) : s.waiters[i] = r)
                            /\ s.fut[r] = "pending"
                         THEN "result" ELSE s.fut[r]],
              !.val = [r \in Requests |->
                         IF (\E i \in 1..Len(s.waiters) : s.waiters[i] = r)
                            /\ s.fut[r] = "pending"
                         THEN s.taken ELSE s.val[r]],
              !.waiters = <<>>])

\* the else branch of _ready_callback; the heap just taken is number s.taken
HeapBranch(s) ==
  LET w == Head(s.waiters)
      t == PopLeft(s)
      u == IF t.raised # "none" THEN t ELSE SetResult(t, w, s.taken)
  IN  IF u.raised # "none" THEN u
      ELSE IF u.waiters = <<>> THEN StopListening(u)
      ELSE u

\* ReadyCallback that keeps taking heaps while waiters remain
RECURSIVE DrainLoop(_)
DrainLoop(t) ==
  IF t.raised # "none" \/ t.waiters = <<>> THEN t
  ELSE LET u == GetNowait([t EXCEPT !.q = t.waiters])
       IN  CASE u.res = "Empty" -> u
             [] u.res = "Stopped" -> StoppedBranch(u)
             [] u.res = "heap" -> DrainLoop(ClearDoneWaiters(HeapBranch(u)))

ReadyCallback_Drain(s) == DrainLoop(ClearDoneWaiters(s))

\* ReadyCallback that stops listening when the source is Empty
ReadyCallback_EmptyStops(s) ==
  LET t == ClearDoneWaiters(s)
  IN  IF t.raised # "none" THEN t
      ELSE IF t.waiters # <<>>
      THEN LET u == GetNowait([t EXCEPT !.q = t.waiters])
           IN  CASE u.res = "Empty" -> StopListening(u)
                 [] u.res = "Stopped" -> StoppedBranch(u)
                 [] u.res = "heap" -> HeapBranch(u)
      ELSE t

\* ReadyCallback that calls get_nowait() before testing self._waiters
ReadyCallback_PollFirst(s) ==
  LET t == ClearDoneWaiters(s)
      u == GetNowait([t EXCEPT !.q = t.waiters])
  IN  IF t.raised # "none" THEN t
      ELSE CASE u.res = "Empty" -> u
             [] u.res = "Stopped" -> StoppedBranch(u)
             [] u.res = "heap" -> IF u.waiters = <<>> THEN u ELSE HeapBranch(u)

ReadyCallback(s) ==
  LET t == ClearDoneWaiters(s)
  IN  IF t.raised # "none" THEN t
      ELSE IF t.waiters # <<>>
      THEN LET u == GetNowait([t EXCEPT !.q = t.waiters])
           IN  CASE u.res = "Empty" -> u
                 [] u.res = "Stopped" -> StoppedBranch(u)
                 [] u.res = "heap" -> HeapBranch(u)
      ELSE t

\* Enqueue without the _start_listening call
Enqueue_NoListen(s, r) ==
  [s EXCEPT !.fut[r] = "pending", !.waiters = Append(@, r), !.pc[r] = "waiting"]

\* waiter = Future(); self._waiters.append(waiter); self._start_listening();
\* yield From(waiter)
Enqueue(s, r) ==
  StartListening([s EXCEPT !.fut[r] = "pending", !.waiters = Append(@, r),
                           !.pc[r] = "waiting"])

\* Get that registers the reader before trying the source
Get_ListenFirst(s, r) ==
  LET t == StartListening(ClearDoneWaiters(s))
  IN  IF t.waiters = <<>>
      THEN LET u == GetNowait([t EXCEPT !.q = t.waiters])
           IN  CASE u.res = "heap" ->
                      [u EXCEPT !.fast[r] = u.taken, !.pc[r] = "returned"]
                 [] u.res = "Stopped" ->
                      [u EXCEPT !.raised = "Stopped", !.pc[r] = "raised"]
                 [] u.res = "Empty" -> Enqueue(u, r)
      ELSE Enqueue(t, r)

\* Get that tries the source whether or not waiters are queued
Get_PollFirst(s, r) ==
  LET t == ClearDoneWaiters(s)
      u == GetNowait([t EXCEPT !.q = t.waiters])
  IN  IF t.raised # "none" THEN [t EXCEPT !.pc[r] = "raised"]
      ELSE CASE u.res = "heap" ->
                  [u EXCEPT !.fast[r] = u.taken, !.pc[r] = "returned"]
             [] u.res = "Stopped" ->
                  [u EXCEPT !.raised = "Stopped", !.pc[r] = "raised"]
             [] u.res = "Empty" -> Enqueue(u, r)

\* Get that treats Stopped like Empty and waits
Get_SwallowStopped(s, r) ==
  LET t == ClearDoneWaiters(s)
  IN  IF t.raised # "none" THEN [t EXCEPT !.pc[r] = "raised"]
      ELSE IF t.waiters = <<>>
      THEN LET u == GetNowait([t EXCEPT !.q = t.waiters])
           IN  CASE u.res = "heap" ->
                      [u EXCEPT !.fast[r] = u.taken, !.pc[r] = "returned"]
                 [] u.res = "Stopped" -> Enqueue(u, r)
                 [] u.res = "Empty" -> Enqueue(u, r)
      ELSE Enqueue(t, r)

\* get() up to its return, raise or yield
Get(s, r) ==
  LET t == ClearDoneWaiters(s)
  IN  IF t.raised # "none" THEN [t EXCEPT !.pc[r] = "raised"]
      ELSE IF t.waiters = <<>>
      THEN LET u == GetNowait([t EXCEPT !.q = t.waiters])
           IN  CASE u.res = "heap" ->
                      [u EXCEPT !.fast[r] = u.taken, !.pc[r] = "returned"]
                 [] u.res = "Stopped" ->
                      [u EXCEPT !.raised = "Stopped", !.pc[r] = "raised"]
                 [] u.res = "Empty" -> Enqueue(u, r)
      ELSE Enqueue(t, r)

Init ==
  /\ waiters = <<>>
  /\ isDeque = TRUE
  /\ listening = FALSE
  /\ readers = 0
  /\ fut = [r \in Requests |-> "none"]
  /\ val = [r \in Requests |-> 0]
  /\ err = [r \in Requests |-> 0]
  /\ pc = [r \in Requests |-> "idle"]
  /\ fast = [r \in Requests |-> 0]
  /\ issued = 0
  /\ produced = 0
  /\ taken = 0
  /\ stopped = FALSE
  /\ nStopped = 0
  /\ last = NoLog

\* The handler's result becomes the new state; the log keeps what it did.
Commit(t, op, r) ==
  /\ waiters' = t.waiters
  /\ isDeque' = t.isDeque
  /\ listening' = t.listening
  /\ readers' = t.readers
  /\ fut' = t.fut
  /\ val' = t.val
  /\ err' = t.err
  /\ pc' = t.pc
  /\ fast' = t.fast
  /\ taken' = t.taken
  /\ nStopped' = t.nStopped
  /\ last' = [op |-> op, r |-> r, polls |-> t.polls, res |-> t.res,
              raised |-> t.raised, adds |-> t.adds, removes |-> t.removes,
              q |-> t.q, pre |-> waiters]

\* a task calls get()
GetCall ==
  /\ issued < MaxRequests
  /\ issued' = issued + 1
  /\ \E t \in {Get(Cur, issued + 1)} : Commit(t, "get", issued + 1)
  /\ UNCHANGED <<produced, stopped>>

\* the loop finds fd readable and runs the registered reader
ReadyEvent ==
  /\ readers > 0
  /\ \E t \in {ReadyCallback(Cur)} : Commit(t, "callback", 0)
  /\ UNCHANGED <<issued, produced, stopped>>

\* the consumer cancels its pending waiter
Cancel(r) ==
  /\ fut[r] = "pending"
  /\ fut' = [fut EXCEPT ![r] = "cancelled"]
  /\ last' = [NoLog EXCEPT !.op = "cancel", !.r = r, !.pre = waiters]
  /\ UNCHANGED <<waiters, isDeque, listening, readers, val, err, pc, fast,
                 issued, produced, taken, stopped, nStopped>>

\* the loop resumes a get() whose waiter is done: heap = yield From(waiter)
Resume(r) ==
  /\ pc[r] = "waiting"
  /\ Done(fut[r])
  /\ pc' = [pc EXCEPT ![r] = IF fut[r] = "result" THEN "returned" ELSE "raised"]
  /\ last' = [NoLog EXCEPT !.op = "resume", !.r = r, !.pre = waiters]
  /\ UNCHANGED <<waiters, isDeque, listening, readers, fut, val, err, fast,
                 issued, produced, taken, stopped, nStopped>>

\* the source completes a heap
Produce ==
  /\ ~stopped
  /\ produced < MaxHeaps
  /\ produced' = produced + 1
  /\ last' = [NoLog EXCEPT !.op = "produce", !.pre = waiters]
  /\ UNCHANGED <<waiters, isDeque, listening, readers, fut, val, err, pc, fast,
                 issued, taken, stopped, nStopped>>

\* the source is stopped
StopSource ==
  /\ ~stopped
  /\ stopped' = TRUE
  /\ last' = [NoLog EXCEPT !.op = "stop", !.pre = waiters]
  /\ UNCHANGED <<waiters, isDeque, listening, readers, fut, val, err, pc, fast,
                 issued, produced, taken, nStopped>>

Next ==
  \/ GetCall
  \/ ReadyEvent
  \/ \E r \in Requests : Cancel(r)
  \/ \E r \in Requests : Resume(r)
  \/ Produce
  \/ StopSource

Spec == Init /\ [][Next]_vars

\* Level-triggered readiness: fd is readable while the source holds a heap or
\* is stopped, and the loop then runs the registered reader.
ReadableEvent == (taken < produced \/ stopped) /\ ReadyEvent

\* ENABLED <<ReadableEvent>>_vars, written out: with the reader registered the
\* queue is not empty, so the callback takes the heap, observes Stopped, or
\* finds only done waiters and stops listening.
ReadyDue == readers > 0 /\ (taken < produced \/ stopped)

ReadyDueIsEnabled == ReadyDue <=> ENABLED <<ReadableEvent>>_vars

\* Spec with weak fairness of ReadableEvent, WF_vars(ReadableEvent), in the
\* form []<>~ENABLED <<A>>_vars \/ []<><<A>>_vars with ReadyDue for the ENABLED,
\* and with the loop resuming every coroutine whose awaited future is done.
FairSpec ==
  /\ Spec
  /\ []<>~ReadyDue \/ []<><<ReadableEvent>>_vars
  /\ \A r \in Requests : WF_vars(Resume(r))

----
\* Helpers of the properties

\* positions of the queue, and the requests in it
InQueue(r) == \E i \in 1..Len(waiters) : waiters[i] = r
HasLive == \E i \in 1..Len(waiters) : fut[waiters[i]] = "pending"
\* the heap request r has been given, by its waiter or directly (0: none)
HeapOf(r) == IF fast[r] # 0 THEN fast[r] ELSE val[r]
\* requests whose waiter gets a heap in this step, or that return one directly
NewResults == {r \in Requests : fut[r] # "result" /\ fut'[r] = "result"}
NewFast == {r \in Requests : fast[r] = 0 /\ fast'[r] # 0}
BridgeOp == last.op \in {"get", "callback"}

\* C1: FIFO delivery. If request r1 was issued before request r2 and both
\* have been given a heap, the heap of r1 was taken from the source before
\* the heap of r2.
C1_Fifo ==
  \A r1, r2 \in Requests :
    (r1 < r2 /\ HeapOf(r1) # 0 /\ HeapOf(r2) # 0) => HeapOf(r1) < HeapOf(r2)

\* Requests 2 and 3 were queued together, 1 and 2 have been served in order.
C1_Witness ==
  /\ last.op = "callback" /\ last.pre = <<2, 3>>
  /\ val[1] = 1 /\ val[2] = 2 /\ fut[3] = "pending"

\* C2: stop fan-out. When a _ready_callback invocation got Stopped from the
\* source, then on its return every waiter that was in the queue is settled
\* with that stop error (a cancelled one stays cancelled), the queue is empty
\* and the listener is off.
C2_StopFanOut ==
  (last.op = "callback" /\ last.res = "Stopped") =>
    /\ \A i \in 1..Len(last.q) :
         \/ fut[last.q[i]] = "exception" /\ err[last.q[i]] = nStopped
         \/ fut[last.q[i]] = "cancelled"
    /\ waiters = <<>>
    /\ ~listening
    /\ readers = 0

\* C3: listener toggling. _listening is true exactly when _waiters is
\* non-empty.
C3_ListenIffQueued == listening <=> (waiters # <<>>)

\* A purge (in a callback that did not poll) emptied the queue and turned the
\* listener off.
C3_Witness ==
  /\ last.op = "callback" /\ last.polls = 0 /\ last.removes = 1
  /\ last.pre # <<>> /\ waiters = <<>> /\ ~listening

\* C4 as stated: after get() or _ready_callback, the bridge listens exactly
\* when the queue holds a pending waiter.
C4_Original == BridgeOp => (listening <=> HasLive)

\* C4 as amended: after get() the bridge listens exactly when the queue holds
\* a pending waiter; after _ready_callback it listens whenever the queue holds
\* a pending waiter, and listens only with a non-empty queue, whose waiters
\* may all be done.
C4_Amended ==
  /\ last.op = "get" => (listening <=> HasLive)
  /\ last.op = "callback" =>
       /\ HasLive => listening
       /\ listening => waiters # <<>>

\* A callback served the front waiter and left the bridge listening with only
\* cancelled waiters in the queue.
C4_Witness ==
  /\ last.op = "callback" /\ last.res = "heap"
  /\ listening /\ waiters # <<>> /\ ~HasLive

\* C5: at-most-once delivery. No heap taken from the source is the result of
\* two waiters, the return value of two direct get() calls, or both.
C5_AtMostOnce ==
  \A h \in 1..taken :
    Cardinality({r \in Requests : val[r] = h})
      + Cardinality({r \in Requests : fast[r] = h}) <= 1

\* One heap went out directly and another through a waiter.
C5_Witness ==
  \E r1, r2 \in Requests : fast[r1] # 0 /\ val[r2] # 0 /\ last.op = "callback"

\* C6: cancelled waiters neither receive nor consume heaps. In every step a
\* cancelled waiter stays cancelled without a heap; a waiter that gets a heap
\* was the oldest pending waiter of the queue; and the step takes exactly as
\* many heaps from the source as it hands out, so none is taken for a
\* cancelled waiter that is removed.
C6_CancelledSkipped ==
  [][ /\ \A r \in Requests :
           fut[r] = "cancelled" => (fut'[r] = "cancelled" /\ val'[r] = 0)
      /\ \A r \in NewResults :
           \E i \in 1..Len(waiters) :
             /\ waiters[i] = r
             /\ fut[r] = "pending"
             /\ \A j \in 1..(i - 1) : fut[waiters[j]] # "pending"
      /\ taken' - taken = Cardinality(NewResults) + Cardinality(NewFast)
    ]_vars

\* With [1, 2 cancelled, 3] queued and two heaps, 1 got the first and 3 the
\* second, in a callback that found the cancelled 2 at the front.
C6_Witness ==
  /\ last.op = "callback" /\ last.pre = <<2, 3>> /\ last.q = <<3>>
  /\ val[1] = 1 /\ fut[2] = "cancelled" /\ val[3] = 2 /\ taken = 2

\* C7: fast path. A get() that finds the queue empty after the purge and takes
\* a heap returns it with no waiter created, no add_reader call, and the
\* queue, the listening flag and the registration as the purge left them.
C7_FastPath ==
  [][ (last'.op = "get" /\ last'.res = "heap") =>
        LET p == ClearDoneWaiters(Cur)
        IN  /\ waiters' = p.waiters
            /\ listening' = p.listening
            /\ readers' = p.readers
            /\ fut' = fut
            /\ last'.adds = 0
            /\ pc'[last'.r] = "returned"
            /\ fast'[last'.r] = taken + 1
    ]_vars

\* A get() purged cancelled waiters, then returned a heap directly.
C7_Witness ==
  /\ last.op = "get" /\ last.res = "heap" /\ last.pre # <<>>
  /\ last.removes = 1 /\ pc[last.r] = "returned"

\* C8: no stale or duplicate registration. The loop holds at most one reader
\* registration, and holds one exactly when _listening is true;
\* _start_listening while listening and _stop_listening while not listening
\* change nothing and make no loop call.
C8_Registration ==
  /\ readers <= 1
  /\ (readers = 1) <=> listening
  /\ listening => StartListening(Cur) = Cur
  /\ ~listening => StopListening(Cur) = Cur

\* A get() called _start_listening while the bridge was already listening.
C8_Witness ==
  /\ last.op = "get" /\ last.pre # <<>> /\ Len(waiters) >= 2
  /\ last.adds = 0 /\ last.removes = 0 /\ listening /\ readers = 1

\* C9: get() after stop does not hang. Once get_nowait() has raised Stopped to
\* the bridge, every later get() polls the source once and raises Stopped,
\* creating no waiter, not suspending and not registering a reader.
C9_GetAfterStop ==
  [][ (nStopped > 0 /\ last'.op = "get") =>
        /\ last'.polls = 1
        /\ last'.raised = "Stopped"
        /\ pc'[last'.r] = "raised"
        /\ fut'[last'.r] = "none"
        /\ \A i \in 1..Len(waiters') : waiters'[i] # last'.r
        /\ last'.adds = 0
    ]_vars

\* C10: single drain per event. One _ready_callback invocation calls
\* get_nowait() at most once, takes at most one heap and gives a heap to at
\* most one waiter.
C10_SingleDrain ==
  [][ last'.op = "callback" =>
        /\ last'.polls <= 1
        /\ taken' <= taken + 1
        /\ Cardinality(NewResults) <= 1
    ]_vars

\* A callback served one waiter although the source still holds a heap and a
\* pending waiter remains.
C10_Witness ==
  /\ last.op = "callback" /\ last.res = "heap" /\ last.polls = 1
  /\ taken < produced /\ HasLive

\* position of a queued request, and the pending waiters up to it
Pos(r) == CHOOSE i \in 1..Len(waiters) : waiters[i] = r
LiveUpTo(r) ==
  Cardinality({i \in 1..Len(waiters) : i <= Pos(r) /\ fut[waiters[i]] = "pending"})
\* r is pending and the source is stopped or holds a heap for every pending
\* waiter up to r
Servable(r) ==
  /\ fut[r] = "pending"
  /\ InQueue(r)
  /\ stopped \/ produced - taken >= LiveUpTo(r)

\* C11: eventual settlement. Under level-triggered readiness, a pending
\* waiter for which the source is stopped or holds enough heaps (one for each
\* pending waiter up to it) is eventually settled with a heap or with the stop
\* error, unless it is cancelled first, and its get() then returns or raises.
C11_EventuallySettled ==
  \A r \in Requests :
    Servable(r) ~> (/\ fut[r] \in {"result", "exception", "cancelled"}
                    /\ pc[r] \in {"returned", "raised"})

\* Waiter 3 stayed pending behind a cancelled waiter when a first callback
\* observed Stopped, and a later callback settled it.
C11_Witness ==
  /\ last.op = "callback" /\ last.pre = <<1, 2, 3>> /\ last.q = <<3>>
  /\ fut[1] = "exception" /\ fut[2] = "cancelled" /\ fut[3] = "exception"


\* C12: Empty is absorbed. A _ready_callback whose get_nowait() reports Empty
\* settles and removes no waiter, leaves the queue as the purge left it and
\* the listener on, and raises nothing; a get() that meets Empty only adds its
\* own pending waiter; Empty is never raised out of a handler.
C12_EmptyAbsorbed ==
  /\ [](last.raised # "Empty")
  /\ [][ /\ (last'.op = "callback" /\ last'.res = "Empty") =>
              /\ waiters' = ClearDoneWaiters(Cur).waiters
              /\ waiters' # <<>>
              /\ fut' = fut /\ val' = val /\ err' = err
              /\ listening' /\ readers' = 1
              /\ last'.removes = 0
              /\ last'.raised = "none"
              /\ taken' = taken
         /\ (last'.op = "get" /\ last'.res = "Empty") =>
              /\ fut' = [fut EXCEPT ![last'.r] = "pending"]
              /\ val' = val /\ err' = err
              /\ last'.raised = "none"
              /\ pc'[last'.r] = "waiting"
       ]_vars

\* A callback purged a cancelled waiter, met Empty and left the bridge
\* listening for the pending waiter behind it.
C12_Witness ==
  /\ last.op = "callback" /\ last.res = "Empty"
  /\ last.pre # waiters /\ last.q = waiters /\ listening /\ HasLive

\* C13: Stopped is absorbing. Once get_nowait() has raised Stopped to the
\* bridge, the bridge is not listening, holds no reader registration and has
\* no pending waiter in its queue.
C13_StoppedAbsorbing ==
  nStopped > 0 => (~listening /\ readers = 0 /\ ~HasLive)

\* the queue a purge leaves from queue q with future states f
PurgedQueue(q, f) ==
  LET k == Cardinality({i \in 1..Len(q) : \A j \in 1..i : Done(f[q[j]])})
  IN  SubSeq(q, k + 1, Len(q))

\* C14: no demand, no poll. A _ready_callback that finds no pending waiter
\* after the purge does not call get_nowait() and takes no heap; a queue that
\* is non-empty after the purge has a pending waiter at its front, so every
\* get_nowait() of a callback is made with a pending front waiter.
C14_NoDemandNoPoll ==
  [][ last'.op = "callback" =>
        LET p == ClearDoneWaiters(Cur)
        IN  /\ (\A i \in 1..Len(p.waiters) : fut[p.waiters[i]] # "pending") =>
                 (last'.polls = 0 /\ taken' = taken)
            /\ p.waiters # <<>> => fut[Head(p.waiters)] = "pending"
            /\ last'.polls > 0 =>
                 (last'.q # <<>> /\ fut[Head(last'.q)] = "pending")
    ]_vars

\* A callback found only cancelled waiters while the source held a heap, and
\* left the heap in the source.
C14_Witness ==
  /\ last.op = "callback" /\ last.polls = 0 /\ last.pre # <<>>
  /\ waiters = <<>> /\ taken < produced

\* C15: get() does not jump the queue. A get() that finds the queue non-empty
\* after the purge does not call get_nowait(), takes no heap, appends its
\* waiter at the tail, leaves the listener on and suspends.
C15_NoQueueJump ==
  [][ (last'.op = "get" /\ PurgedQueue(waiters, fut) # <<>>) =>
        /\ last'.polls = 0
        /\ taken' = taken
        /\ waiters' = Append(PurgedQueue(waiters, fut), last'.r)
        /\ fut' = [fut EXCEPT ![last'.r] = "pending"]
        /\ fast' = fast
        /\ pc'[last'.r] = "waiting"
        /\ listening' /\ readers' = 1
    ]_vars

\* A get() queued behind a pending waiter although the source held a heap.
C15_Witness ==
  /\ last.op = "get" /\ last.polls = 0 /\ taken < produced
  /\ Len(waiters) >= 2 /\ fut[Head(waiters)] = "pending"
  /\ pc[last.r] = "waiting"

\* C16: the purge is front-only and order-preserving. In every get() and
\* _ready_callback, _clear_done_waiters removes exactly the longest prefix of
\* done waiters, keeps the rest in order (done waiters behind a pending one
\* included), settles no waiter, and turns the listener off exactly when the
\* queue is empty afterwards.
C16_PurgeFrontOnly ==
  [][ last'.op \in {"get", "callback"} =>
        LET p == ClearDoneWaiters(Cur)
        IN  /\ \E k \in 0..Len(waiters) :
                 /\ p.waiters = SubSeq(waiters, k + 1, Len(waiters))
                 /\ \A i \in 1..k : Done(fut[waiters[i]])
                 /\ k < Len(waiters) => ~Done(fut[waiters[k + 1]])
            /\ p.fut = fut /\ p.val = val /\ p.err = err
            /\ p.listening = (listening /\ p.waiters # <<>>)
            /\ p.readers = IF p.waiters = <<>> THEN 0 ELSE readers
            /\ last'.polls > 0 => last'.q = p.waiters
    ]_vars

\* A callback purged the cancelled front waiter 1 and kept the pending 2 and
\* the cancelled 3 behind it.
C16_Witness ==
  /\ last.op = "callback" /\ last.pre = <<1, 2, 3>> /\ last.q = <<2, 3>>
  /\ waiters = <<2, 3>> /\ fut[1] = "cancelled" /\ fut[2] = "pending"
  /\ fut[3] = "cancelled"

\* C17: single assignment is respected. No set_result or set_exception call
\* of _ready_callback meets a waiter that is not pending, so no
\* InvalidStateError escapes the callback.
C17_SingleAssignment ==
  last.op = "callback" => last.raised # "InvalidStateError"

\* C18: no heap is dropped. Every heap taken from the source is the direct
\* return value of a get() or the result of a waiter, and the number of heaps
\* taken equals the number of direct returns plus the number of waiters
\* fulfilled with a heap.
C18_NoHeapDropped ==
  /\ \A h \in 1..taken : \E r \in Requests : fast[r] = h \/ val[r] = h
  /\ taken = Cardinality({r \in Requests : fast[r] # 0})
               + Cardinality({r \in Requests : fut[r] = "result"})

\* Every heap of the source has been handed out, one of them to a waiter
\* queued behind a cancelled one.
C18_Witness ==
  /\ taken = MaxHeaps /\ last.op = "callback" /\ last.res = "heap"
  /\ \E r \in Requests : fut[r] = "cancelled" /\ r < last.q[1]

\* C19: once the Stopped branch has replaced _waiters by a list, the queue
\* stays empty: no get() appends to it and no purge or dispatch calls popleft
\* on it (no AttributeError is raised).
C19_ListStaysEmpty ==
  /\ ~isDeque => waiters = <<>>
  /\ last.raised # "AttributeError"

\* A get() ran after the replacement: it purged nothing, polled and raised
\* Stopped.
C19_Witness ==
  /\ ~isDeque /\ last.op = "get" /\ last.res = "Stopped"
  /\ last.raised = "Stopped" /\ waiters = <<>>


TypeOK ==
  /\ waiters \in Seq(Requests)
  /\ listening \in BOOLEAN
  /\ \A r \in Requests : fut[r] \in {"none", "pending", "result", "exception", "cancelled"}
  /\ taken <= produced
====
